---- MODULE Spec2Model ----
(***************************************************************************)
(* Texas Hold'em hand processing: PokerService.process_hand evaluates the  *)
(* hands of the players who are still in, settles the pot among the best   *)
(* hands and stores the hand through HandRepository.save_hand.  The hand   *)
(* endpoints of main.py validate the request body as a HandRequest and     *)
(* turn the failures of the service into HTTP statuses.                    *)
(*                                                                         *)
(* Spec          one call of process_hand, for short lists of players      *)
(* SpecShowdown  one call of process_hand, heads-up at six boards          *)
(* SpecApi       one request at one of the three hand endpoints            *)
(* SpecCalls     concurrent calls of process_hand, step by step            *)
(* SpecRepo      the queries of HandRepository on the hands table          *)
(* SpecLog       the lines of the hand history                             *)
(***************************************************************************)
EXTENDS Integers, Sequences, FiniteSets, TLC

VARIABLES
    hand_data,           \* the request handed to process_hand
    pc,                  \* position of the process_hand call
    evaluations,         \* ordered dict player_id -> (best_hand, str(best_hand))
    winners,             \* list of player ids
    winnings_by_player,  \* dict player_id -> signed chips
    best_hands,          \* dict str(player_id) -> description
    hands,               \* rows of the hands table
    response,            \* value returned by process_hand
    raised,              \* exception that left process_hand, "none" if none
    endpoint,            \* the route that received the request, "none" if none
    failure,             \* what the hand service is about to raise, "none" if nothing
    status_code,         \* HTTP status of the answer, 0 while there is none
    calls,               \* the process_hand calls in flight, with their locals
    connections,         \* the database connections opened so far
    columns              \* the columns of the hands table, {} where no query looks at them

vars == <<hand_data, pc, evaluations, winners, winnings_by_player,
          best_hands, hands, response, raised, endpoint, failure, status_code,
          calls, connections, columns>>

\* what the specifications of one call and of one request leave alone
repository == <<calls, connections, columns>>

(***************************************************************************)
(* Bounds of the explored inputs.                                          *)
(***************************************************************************)
MaxPlayers == 3
MaxPot == 3
MaxActions == 2

PlayerIds == 1..MaxPlayers
Pots == (-1)..MaxPot
Amounts == {-1, 0, 1}
Positions == {0, 1, 2}

(***************************************************************************)
(* Cards.  A card token "Qh" is a rank and a suit; ranks 2..14 (T=10,      *)
(* J=11, Q=12, K=13, A=14).  A card string is the sequence of its tokens.  *)
(***************************************************************************)
Suits == {"h", "d", "c", "s"}
Card(r, s) == [rank |-> r, suit |-> s]

Range(seq) == {seq[i] : i \in DOMAIN seq}
SetMax(S) == CHOOSE x \in S : \A y \in S : y <= x
SetMin(S) == CHOOSE x \in S : \A y \in S : x <= y

\* "8h9cTdJsQh" and "6d6s7h2d9c"
Board1 == <<Card(8, "h"), Card(9, "c"), Card(10, "d"), Card(11, "s"), Card(12, "h")>>
Board2 == <<Card(6, "d"), Card(6, "s"), Card(7, "h"), Card(2, "d"), Card(9, "c")>>
Boards == {Board1, Board2}

\* "", "6h7s", "6c7d", "3c4d", "Kh2s"
NoCards == <<>>
Hole3c4d == <<Card(3, "c"), Card(4, "d")>>
Hole6h7s == <<Card(6, "h"), Card(7, "s")>>
Hole6c7d == <<Card(6, "c"), Card(7, "d")>>
HoleKh2s == <<Card(13, "h"), Card(2, "s")>>
HoleSet == {NoCards, Hole6h7s, Hole6c7d, Hole3c4d, HoleKh2s}

\* Showdown tables: a board, and the cards that are left for the players to
\* hold.  "3h4d5cTsKc", "QhJhTh7s8s", "5h8h9hTh6s", "5s5d9s9dKd",
\* "2h7d9cJs4s" and "9h9dThJh2s".
WheelTable ==
    [board |-> <<Card(3, "h"), Card(4, "d"), Card(5, "c"), Card(10, "s"), Card(13, "c")>>,
     deck  |-> <<Card(14, "h"), Card(14, "s"), Card(2, "s"), Card(2, "d"), Card(6, "d"),
                 Card(6, "s"), Card(7, "s"), Card(3, "s"), Card(3, "d")>>]
RoyalTable ==
    [board |-> <<Card(12, "h"), Card(11, "h"), Card(10, "h"), Card(7, "s"), Card(8, "s")>>,
     deck  |-> <<Card(14, "h"), Card(13, "h"), Card(14, "d"), Card(13, "d"), Card(9, "h"),
                 Card(8, "h"), Card(9, "s"), Card(6, "s"), Card(5, "s")>>]
FlushTable ==
    [board |-> <<Card(5, "h"), Card(8, "h"), Card(9, "h"), Card(10, "h"), Card(6, "s")>>,
     deck  |-> <<Card(2, "h"), Card(7, "d"), Card(7, "h"), Card(6, "h"), Card(11, "h"),
                 Card(13, "h"), Card(7, "c"), Card(2, "c"), Card(14, "d")>>]
FullHouseTable ==
    [board |-> <<Card(5, "s"), Card(5, "d"), Card(9, "s"), Card(9, "d"), Card(13, "d")>>,
     deck  |-> <<Card(5, "h"), Card(5, "c"), Card(9, "h"), Card(9, "c"), Card(13, "h"),
                 Card(13, "c"), Card(2, "c"), Card(14, "c"), Card(14, "h")>>]
KickerTable ==
    [board |-> <<Card(2, "h"), Card(7, "d"), Card(9, "c"), Card(11, "s"), Card(4, "s")>>,
     deck  |-> <<Card(14, "h"), Card(14, "d"), Card(13, "h"), Card(13, "d"), Card(12, "c"),
                 Card(12, "d"), Card(3, "c"), Card(9, "h"), Card(11, "d")>>]
MixedTable ==
    [board |-> <<Card(9, "h"), Card(9, "d"), Card(10, "h"), Card(11, "h"), Card(2, "s")>>,
     deck  |-> <<Card(9, "c"), Card(9, "s"), Card(10, "c"), Card(12, "h"), Card(13, "h"),
                 Card(8, "h"), Card(12, "c"), Card(13, "c"), Card(2, "c")>>]
Tables ==
    {WheelTable, RoyalTable, FlushTable, FullHouseTable, KickerTable, MixedTable}

\* the hole cards that a deck can deal to one player
Holes(deck) ==
    {<<deck[m[1]], deck[m[2]]>> :
        m \in {n \in (DOMAIN deck) \X (DOMAIN deck) : n[1] < n[2]}}

(***************************************************************************)
(* StandardHighHand.from_game: the strongest of the five-card hands that   *)
(* the hole cards and the board contain.  A hand is compared by a single   *)
(* number: its category, then its ranks in order of significance.          *)
(***************************************************************************)
RankSet(S) == {c.rank : c \in S}
Count(S, r) == Cardinality({c \in S : c.rank = r})
IsFlush(S) == \E s \in Suits : \A c \in S : c.suit = s
IsWheel(S) == RankSet(S) = {14, 2, 3, 4, 5}
IsStraight(S) ==
    /\ Cardinality(RankSet(S)) = 5
    /\ \/ SetMax(RankSet(S)) - SetMin(RankSet(S)) = 4
       \/ IsWheel(S)

HasCount(S, n) == \E r \in RankSet(S) : Count(S, r) = n
Pairs(S) == {r \in RankSet(S) : Count(S, r) = 2}

\* a faulty variant: a flush is put above a full house
CategoryFlushOverFullHouse(S) ==
    CASE IsStraight(S) /\ IsFlush(S)      -> 8
      [] HasCount(S, 4)                   -> 7
      [] IsFlush(S)                       -> 6
      [] HasCount(S, 3) /\ HasCount(S, 2) -> 5
      [] IsStraight(S)                    -> 4
      [] HasCount(S, 3)                   -> 3
      [] Cardinality(Pairs(S)) = 2        -> 2
      [] Cardinality(Pairs(S)) = 1        -> 1
      [] OTHER                            -> 0

\* 8 Straight Flush, 7 Four of a Kind, 6 Full House, 5 Flush, 4 Straight,
\* 3 Three of a Kind, 2 Two Pair, 1 Pair, 0 High Card
Category(S) ==
    CASE IsStraight(S) /\ IsFlush(S)      -> 8
      [] HasCount(S, 4)                   -> 7
      [] HasCount(S, 3) /\ HasCount(S, 2) -> 6
      [] IsFlush(S)                       -> 5
      [] IsStraight(S)                    -> 4
      [] HasCount(S, 3)                   -> 3
      [] Cardinality(Pairs(S)) = 2        -> 2
      [] Cardinality(Pairs(S)) = 1        -> 1
      [] OTHER                            -> 0

Label(c) ==
    CASE c = 8 -> "Straight flush"
      [] c = 7 -> "Four of a kind"
      [] c = 6 -> "Full house"
      [] c = 5 -> "Flush"
      [] c = 4 -> "Straight"
      [] c = 3 -> "Three of a kind"
      [] c = 2 -> "Two pair"
      [] c = 1 -> "One pair"
      [] OTHER -> "High card"

AceRank == 14
RankBase == AceRank + 1
CategoryWeight == RankBase * RankBase * RankBase * RankBase * RankBase

\* a faulty variant: the highest rank comes first, however often it is held
RECURSIVE SignificanceHighestFirst(_, _, _)
SignificanceHighestFirst(S, rs, acc) ==
    IF rs = {} THEN acc
    ELSE SignificanceHighestFirst(S, rs \ {SetMax(rs)}, acc * RankBase + SetMax(rs))

\* the ranks of S, most frequent first and then highest first, as base-15 digits
RECURSIVE Significance(_, _, _)
Significance(S, rs, acc) ==
    IF rs = {} THEN acc
    ELSE LET r == CHOOSE x \in rs : \A y \in rs :
                      Count(S, y) * RankBase + y <= Count(S, x) * RankBase + x
         IN  Significance(S, rs \ {r}, acc * RankBase + r)

\* a faulty variant: the Ace of the wheel counts as its high card
TieBreakAceHighWheel(S) ==
    IF IsStraight(S)
    THEN SetMax(RankSet(S))
    ELSE Significance(S, RankSet(S), 0)

TieBreak(S) ==
    IF IsStraight(S)
    THEN (IF IsWheel(S) THEN 5 ELSE SetMax(RankSet(S)))
    ELSE Significance(S, RankSet(S), 0)

Strength(S) == Category(S) * CategoryWeight + TieBreak(S)

FiveCardHands(cards) == {S \in SUBSET cards : Cardinality(S) = 5}

\* a faulty variant: a flush and a straight anywhere in the seven cards are
\* taken for a straight flush
from_game_flush_and_straight(hole_cards, board_cards) ==
    LET fives == FiveCardHands(Range(hole_cards) \cup Range(board_cards))
        straights == {S \in fives : IsStraight(S)}
    IN  IF straights # {} /\ \E S \in fives : IsFlush(S)
        THEN 8 * CategoryWeight + SetMax({TieBreak(S) : S \in straights})
        ELSE SetMax({Strength(S) : S \in fives})

from_game(hole_cards, board_cards) ==
    SetMax({Strength(S) : S \in FiveCardHands(Range(hole_cards) \cup Range(board_cards))})

HandTable ==
    [h \in HoleSet \ {NoCards}, b \in Boards |-> from_game(h, b)]

\* the same for the deals of the showdown tables
TableBoards == {t.board : t \in Tables}
DeckAt(b) == (CHOOSE t \in Tables : t.board = b).deck
TableHands == [b \in TableBoards |-> [h \in Holes(DeckAt(b)) |-> from_game(h, b)]]

BestHand(hole_cards, board_cards) ==
    IF board_cards \in Boards
    THEN HandTable[hole_cards, board_cards]
    ELSE TableHands[board_cards][hole_cards]

\* str(best_hand)
HandStr(hand) == Label(hand \div CategoryWeight)

(***************************************************************************)
(* PokerService._evaluate_all_hands                                        *)
(***************************************************************************)
\* a Python dict keeps its keys in insertion order: a sequence of entries
DictKeys(d) == {d[i].player_id : i \in DOMAIN d}

DictSet(d, entry) ==
    IF entry.player_id \in DictKeys(d)
    THEN [i \in DOMAIN d |->
             IF d[i].player_id = entry.player_id THEN entry ELSE d[i]]
    ELSE Append(d, entry)

\* a faulty variant: the folded flag is not looked at
SkippedIgnoringFold(player) == player.hole_cards = NoCards

\* line 106: no hole cards, or folded
Skipped(player) == player.hole_cards = NoCards \/ player.folded

Evaluation(player, board_cards) ==
    LET best_hand == BestHand(player.hole_cards, board_cards)
    IN  [player_id |-> player.player_id,
         hand      |-> best_hand,
         desc      |-> HandStr(best_hand)]

RECURSIVE EvaluateFrom(_, _, _, _)
EvaluateFrom(players, board_cards, i, acc) ==
    IF i > Len(players) THEN acc
    ELSE IF Skipped(players[i])
         THEN EvaluateFrom(players, board_cards, i + 1, acc)
         ELSE EvaluateFrom(players, board_cards, i + 1,
                           DictSet(acc, Evaluation(players[i], board_cards)))

evaluate_all_hands(players, board_cards) ==
    EvaluateFrom(players, board_cards, 1, <<>>)

(***************************************************************************)
(* PokerService._estimate_player_contribution                              *)
(***************************************************************************)
CountedActions == {"call", "raise", "bet", "all_in"}
ActionNames == CountedActions \cup {"fold", "check"}
BigBlindGuess == 40
SmallBlindGuess == 20

RECURSIVE ActionTotal(_, _)
ActionTotal(actions, i) ==
    IF i > Len(actions) THEN 0
    ELSE (IF actions[i].action \in CountedActions THEN actions[i].amount ELSE 0)
         + ActionTotal(actions, i + 1)

estimate_player_contribution(player) ==
    LET total == ActionTotal(player.actions, 1)
    IN  IF total = 0 /\ player.position = 2 THEN BigBlindGuess
        ELSE IF total = 0 /\ player.position = 1 THEN SmallBlindGuess
        ELSE total

(***************************************************************************)
(* PokerService._calculate_winnings                                        *)
(***************************************************************************)
EmptyDict == [k \in {} |-> 0]
Put(d, k, v) == [x \in DOMAIN d \cup {k} |-> IF x = k THEN v ELSE d[x]]

\* a faulty variant: the weakest hand is taken for the best
WorstHandOf(evals) == SetMin({evals[i].hand : i \in DOMAIN evals})

\* line 130: max(hand for hand, _ in evaluations.values())
BestHandOf(evals) == SetMax({evals[i].hand : i \in DOMAIN evals})

RECURSIVE Reverse(_)
Reverse(s) == IF s = <<>> THEN <<>> ELSE Append(Reverse(Tail(s)), Head(s))

RECURSIVE WinnersFrom(_, _, _)
WinnersFrom(evals, best_hand, i) ==
    IF i > Len(evals) THEN <<>>
    ELSE (IF evals[i].hand = best_hand THEN <<evals[i].player_id>> ELSE <<>>)
         \o WinnersFrom(evals, best_hand, i + 1)

\* a faulty variant: the winners are listed last to first
WinnersReversed(evals, best_hand) == Reverse(WinnersFrom(evals, best_hand, 1))

\* a faulty variant: only the first holder of the best hand wins
WinnersFirstOnly(evals, best_hand) ==
    SubSeq(WinnersFrom(evals, best_hand, 1), 1, 1)

\* a faulty variant: every hand of the category of the best hand wins
WinnersOfSameCategory(evals, best_hand) ==
    LET same == SelectSeq(evals, LAMBDA e :
                    e.hand \div CategoryWeight = best_hand \div CategoryWeight)
    IN  [i \in DOMAIN same |-> same[i].player_id]

\* lines 132-135: the winners in the iteration order of evaluations
WinnersOf(evals, best_hand) == WinnersFrom(evals, best_hand, 1)

\* a faulty variant: the remainder is dropped
ShareWithoutRemainder(i, pot_size, n) == pot_size \div n

\* a faulty variant: one winner too many gets an odd chip
ShareOffByOne(i, pot_size, n) ==
    (pot_size \div n) + (IF i <= pot_size % n THEN 1 ELSE 0)

\* a faulty variant: the odd chips go to the last winners of the list
ShareLastFirst(i, pot_size, n) ==
    (pot_size \div n) + (IF i >= n - (pot_size % n) THEN 1 ELSE 0)

\* lines 139-142: the share of the winner at index i (from 0) of n winners
WinShare(i, pot_size, n) ==
    (pot_size \div n) + (IF i < pot_size % n THEN 1 ELSE 0)

RECURSIVE PayWinners(_, _, _, _)
PayWinners(win, pot_size, i, acc) ==
    IF i > Len(win) THEN acc
    ELSE PayWinners(win, pot_size, i + 1,
                    Put(acc, win[i], WinShare(i - 1, pot_size, Len(win))))

\* a faulty variant: a folded player gets no entry
ChargedNotFolded(player, winnings) ==
    player.player_id \notin DOMAIN winnings /\ ~player.folded

\* line 153: the player has no entry yet
Charged(player, winnings) == player.player_id \notin DOMAIN winnings

\* lines 145-155: non-winners lose
RECURSIVE ChargeLosers(_, _, _)
ChargeLosers(players, i, acc) ==
    IF i > Len(players) THEN acc
    ELSE ChargeLosers(players, i + 1,
            IF Charged(players[i], acc)
            THEN Put(acc, players[i].player_id,
                     -estimate_player_contribution(players[i]))
            ELSE acc)

\* lines 158-160
BestHandsOf(evals) ==
    [k \in {ToString(evals[i].player_id) : i \in DOMAIN evals} |->
        LET i == CHOOSE j \in DOMAIN evals : ToString(evals[j].player_id) = k
        IN  evals[i].desc]

Settled(evals, pot_size, players) ==
    LET win == WinnersOf(evals, BestHandOf(evals))
    IN  [winners            |-> win,
         winnings_by_player |-> ChargeLosers(players, 1,
                                    PayWinners(win, pot_size, 1, EmptyDict)),
         best_hands         |-> BestHandsOf(evals)]

NothingSettled ==
    [winners |-> <<>>, winnings_by_player |-> EmptyDict, best_hands |-> EmptyDict]

\* a faulty variant: no early return on empty evaluations
CalculateWithoutEarlyReturn(evals, pot_size, players) ==
    [winners            |-> <<>>,
     winnings_by_player |-> ChargeLosers(players, 1, EmptyDict),
     best_hands         |-> BestHandsOf(evals)]

\* lines 126-127: the early return
WhenNoEvaluations(evals, pot_size, players) == NothingSettled

calculate_winnings(evals, pot_size, players) ==
    IF evals = <<>>
    THEN WhenNoEvaluations(evals, pot_size, players)
    ELSE Settled(evals, pot_size, players)

(***************************************************************************)
(* HandRepository.save_hand                                                *)
(***************************************************************************)
DefaultSmallBlind == 20
DefaultBigBlind == 40

\* json.dumps writes the integer keys of a dict as strings
JsonKeys(d) ==
    [k \in {ToString(i) : i \in DOMAIN d} |->
        d[CHOOSE i \in DOMAIN d : ToString(i) = k]]

JsonResults(results) ==
    [winners            |-> results.winners,
     winnings_by_player |-> JsonKeys(results.winnings_by_player),
     best_hands         |-> results.best_hands]

\* the row that the INSERT writes; the uuid is a fresh one
HandRow(hand_uuid, save_data) ==
    [uuid         |-> hand_uuid,
     players_data |-> save_data.players_data,
     board_cards  |-> save_data.board_cards,
     pot_size     |-> save_data.pot_size,
     small_blind  |-> save_data.small_blind,
     big_blind    |-> save_data.big_blind,
     results      |-> JsonResults(save_data.results)]

(***************************************************************************)
(* The requests.  A request lists its players in any order, with distinct  *)
(* player ids and no card dealt twice.                                     *)
(***************************************************************************)
Injective(seq) == \A i, j \in DOMAIN seq : seq[i] = seq[j] => i = j

IdLists(n) == {ids \in [1..n -> PlayerIds] : Injective(ids)}

\* no two players hold the same cards; any of them may hold none
HoleLists(n) ==
    {holes \in [1..n -> HoleSet] :
        \A i, j \in 1..n : (holes[i] = holes[j] /\ holes[i] # NoCards) => i = j}

Player(id, pos, hole, folded, actions) ==
    [player_id |-> id, position |-> pos, hole_cards |-> hole,
     folded |-> folded, actions |-> actions]

Request(players, board, pot) ==
    [players |-> players, board_cards |-> board, pot_size |-> pot]

\* showdowns: seats in list order, no action recorded
ShowdownPlayers(ids, holes, folds) ==
    [i \in DOMAIN ids |-> Player(ids[i], i - 1, holes[i], folds[i], <<>>)]

ActionRecords == [action : ActionNames, amount : Amounts]
ActionLogs == UNION {[1..n -> ActionRecords] : n \in 0..MaxActions}

\* heads-up hands in which the second player carries an action log
LedgerPlayers(pos, folded, log) ==
    <<Player(1, 0, HoleKh2s, FALSE, <<>>), Player(2, pos, Hole6h7s, folded, log)>>

(***************************************************************************)
(* PokerService.process_hand, called once with a request.                  *)
(***************************************************************************)
ShowdownRequest ==
    \E n \in 1..MaxPlayers :
    \E ids \in IdLists(n), holes \in HoleLists(n), folds \in [1..n -> BOOLEAN] :
    \E board \in Boards, pot \in Pots :
        hand_data = Request(ShowdownPlayers(ids, holes, folds), board, pot)

LedgerRequest ==
    \E pos \in Positions, folded \in BOOLEAN, log \in ActionLogs :
        hand_data = Request(LedgerPlayers(pos, folded, log), Board1, MaxPot)

\* heads-up showdowns at the showdown tables, for an odd and an even pot
TableRequest ==
    \E t \in Tables :
    \E h1 \in Holes(t.deck), h2 \in Holes(t.deck), pot \in {MaxPot - 1, MaxPot} :
        /\ Range(h1) \cap Range(h2) = {}
        /\ hand_data = Request(ShowdownPlayers(<<1, 2>>, <<h1, h2>>, <<FALSE, FALSE>>),
                               t.board, pot)

Init ==
    /\ ShowdownRequest \/ LedgerRequest
    /\ pc = "called"
    /\ evaluations = <<>>
    /\ winners = <<>>
    /\ winnings_by_player = EmptyDict
    /\ best_hands = EmptyDict
    /\ hands = <<>>
    /\ response = "none"
    /\ raised = "none"
    /\ endpoint = "none"
    /\ failure = "none"
    /\ status_code = 0
    /\ calls = <<>>
    /\ connections = <<>>
    /\ columns = {}

\* a faulty variant: the hand is stored before it is settled
SaveDataBeforeSettlement(data_dict, results) ==
    [players_data |-> data_dict.players,
     board_cards  |-> data_dict.board_cards,
     pot_size     |-> data_dict.pot_size,
     small_blind  |-> DefaultSmallBlind,
     big_blind    |-> DefaultBigBlind,
     results      |-> NothingSettled]

SaveData(data_dict, results) ==
    [players_data |-> data_dict.players,
     board_cards  |-> data_dict.board_cards,
     pot_size     |-> data_dict.pot_size,
     small_blind  |-> DefaultSmallBlind,
     big_blind    |-> DefaultBigBlind,
     results      |-> results]

Response(hand_uuid, data_dict, results) ==
    [hand_uuid          |-> hand_uuid,
     winners            |-> results.winners,
     pot_size           |-> data_dict.pot_size,
     winnings_by_player |-> results.winnings_by_player,
     best_hands         |-> results.best_hands]

process_hand(data_dict) ==
    \E evals \in {evaluate_all_hands(data_dict.players, data_dict.board_cards)} :
    \E results \in {calculate_winnings(evals, data_dict.pot_size, data_dict.players)} :
    \E hand_uuid \in {Len(hands) + 1} :
        /\ evaluations' = evals
        /\ winners' = results.winners
        /\ winnings_by_player' = results.winnings_by_player
        /\ best_hands' = results.best_hands
        /\ hands' = Append(hands, HandRow(hand_uuid, SaveData(data_dict, results)))
        /\ response' = Response(hand_uuid, data_dict, results)
        /\ raised' = "none"

ProcessHand ==
    /\ pc = "called"
    /\ process_hand(hand_data)
    /\ pc' = "returned"
    /\ UNCHANGED <<hand_data, endpoint, failure, status_code>>
    /\ UNCHANGED repository

Next == ProcessHand

Spec == Init /\ [][Next]_vars

InitShowdown ==
    /\ TableRequest
    /\ pc = "called"
    /\ evaluations = <<>>
    /\ winners = <<>>
    /\ winnings_by_player = EmptyDict
    /\ best_hands = EmptyDict
    /\ hands = <<>>
    /\ response = "none"
    /\ raised = "none"
    /\ endpoint = "none"
    /\ failure = "none"
    /\ status_code = 0
    /\ calls = <<>>
    /\ connections = <<>>
    /\ columns = {}

SpecShowdown == InitShowdown /\ [][Next]_vars

(***************************************************************************)
(* HandRequest: the validation of a request body.  The fields are          *)
(* validated in the order of their declaration (players, board_cards,      *)
(* pot_size), and a validator finds in `values` only the fields that were  *)
(* validated before its own.                                               *)
(***************************************************************************)
MinItems == 2
MaxItems == 6
BoardLength == 5

FieldOrder == <<"players", "board_cards", "pot_size">>
FieldIndex(field) == CHOOSE i \in DOMAIN FieldOrder : FieldOrder[i] = field

\* the keys of `values` when the validator of `field` runs
ValuesAt(field) == {FieldOrder[i] : i \in 1..(FieldIndex(field) - 1)}

\* valid_ranks = '23456789TJQKA', valid_suits = 'hdcs'
ValidRanks == 2..AceRank
ValidSuits == Suits
ValidToken(card) == card.rank \in ValidRanks /\ card.suit \in ValidSuits

\* PlayerDataRequest.validate_hole_cards: four characters, two card tokens
\* of a valid rank and suit, not the same twice
validate_hole_cards(v) ==
    /\ Len(v) = 2
    /\ \A i \in DOMAIN v : ValidToken(v[i])
    /\ v[1] # v[2]

\* a faulty variant: the cards of the board are not compared
validate_board_cards_any_five(v) ==
    /\ Len(v) = BoardLength
    /\ \A i \in DOMAIN v : ValidToken(v[i])

\* HandRequest.validate_board_cards: ten characters, five card tokens of a
\* valid rank and suit, none twice
validate_board_cards(v) ==
    /\ Len(v) = BoardLength
    /\ \A i \in DOMAIN v : ValidToken(v[i])
    /\ Injective(v)

RECURSIVE Flatten(_)
Flatten(seqs) ==
    IF seqs = <<>> THEN <<>> ELSE Head(seqs) \o Flatten(Tail(seqs))

\* all_cards: the board cards, then the hole cards of each player
AllCards(players, board_cards) ==
    board_cards \o Flatten([i \in DOMAIN players |-> players[i].hole_cards])

\* HandRequest.validate_players: the cards are compared only if board_cards
\* is among the values validated so far; the player ids always are
validate_players(v, values, board_cards) ==
    /\ ("board_cards" \in values) => Injective(AllCards(v, board_cards))
    /\ Injective([i \in DOMAIN v |-> v[i].player_id])

HandRequestValid(data) ==
    /\ \A i \in DOMAIN data.players : validate_hole_cards(data.players[i].hole_cards)
    /\ Len(data.players) \in MinItems..MaxItems
    /\ validate_players(data.players, ValuesAt("players"), data.board_cards)
    /\ validate_board_cards(data.board_cards)
    /\ data.pot_size > 0

(***************************************************************************)
(* The hand endpoints of main.py.  A request body is validated as a        *)
(* HandRequest, answered 422 if it is refused, and handed to the hand      *)
(* service otherwise; the handler turns what the service raises into a     *)
(* status.  The service either processes the hand as                       *)
(* PokerService.process_hand does, or raises before anything is stored.    *)
(***************************************************************************)
Ok == 200
BadRequest == 400
UnprocessableEntity == 422
InternalServerError == 500

Endpoints == {"/hands", "/hands/simulate", "/hands/quick"}
Failures == {"none", "ValueError", "Exception"}

\* the ids a request body may carry, twice the same included
ApiIds == 1..MinItems

\* the body carries no folded flag: nobody has folded
ApiPlayers(ids, holes) ==
    [i \in DOMAIN ids |-> Player(ids[i], i - 1, holes[i], FALSE, <<>>)]

\* hole cards that are no two cards: "3c", "1h4d", "3x4d", "3c3c"
HoleOneCard == <<Card(3, "c")>>
HoleBadRank == <<Card(1, "h"), Card(4, "d")>>
HoleBadSuit == <<Card(3, "x"), Card(4, "d")>>
HoleTwice == <<Card(3, "c"), Card(3, "c")>>
ApiHoles == HoleSet \cup {HoleOneCard, HoleBadRank, HoleBadSuit, HoleTwice}

\* boards that are no five cards: "8h9cTdJs", "8h9cTdJs8h", "8h9cTdJs1h"
BoardOfFour == SubSeq(Board1, 1, BoardLength - 1)
BoardTwice == BoardOfFour \o <<Card(8, "h")>>
BoardBadRank == BoardOfFour \o <<Card(1, "h")>>
ApiBoards == Boards \cup {BoardOfFour, BoardTwice, BoardBadRank}

\* bodies of one or two players, holding any cards (the same ones included)
SmallRequest ==
    \E n \in (MinItems - 1)..MinItems :
    \E ids \in [1..n -> ApiIds], holes \in [1..n -> ApiHoles] :
    \E board \in ApiBoards, pot \in Pots :
        hand_data = Request(ApiPlayers(ids, holes), board, pot)

\* bodies of six and of seven players
FullRequest ==
    \E n \in MaxItems..(MaxItems + 1) :
    \E hole \in HoleSet \ {NoCards}, board \in Boards :
        hand_data = Request(ApiPlayers([i \in 1..n |-> i], [i \in 1..n |-> hole]),
                            board, MaxPot)

ApiRequest == SmallRequest \/ FullRequest

InitApi ==
    /\ ApiRequest
    /\ endpoint \in Endpoints
    /\ failure \in Failures
    /\ pc = "received"
    /\ evaluations = <<>>
    /\ winners = <<>>
    /\ winnings_by_player = EmptyDict
    /\ best_hands = EmptyDict
    /\ hands = <<>>
    /\ response = "none"
    /\ raised = "none"
    /\ status_code = 0
    /\ calls = <<>>
    /\ connections = <<>>
    /\ columns = {}

ValidateRequest ==
    /\ pc = "received"
    /\ IF HandRequestValid(hand_data)
       THEN pc' = "validated" /\ UNCHANGED status_code
       ELSE pc' = "answered" /\ status_code' = UnprocessableEntity
    /\ UNCHANGED <<hand_data, evaluations, winners, winnings_by_player,
                   best_hands, hands, response, raised, endpoint, failure>>
    /\ UNCHANGED repository

\* try: return service.process_hand(hand_request), with the statuses that
\* the except clauses of the handler give to a ValueError and to any other
\* exception
ServiceCall(on_value_error, on_exception) ==
    IF failure = "none"
    THEN /\ process_hand(hand_data)
         /\ status_code' = Ok
    ELSE /\ raised' = failure
         /\ status_code' = (IF failure = "ValueError" THEN on_value_error
                                                     ELSE on_exception)
         /\ UNCHANGED <<evaluations, winners, winnings_by_player,
                        best_hands, hands, response>>

create_hand ==
    /\ pc = "validated"
    /\ endpoint = "/hands"
    /\ ServiceCall(BadRequest, InternalServerError)
    /\ pc' = "answered"
    /\ UNCHANGED <<hand_data, endpoint, failure>>
    /\ UNCHANGED repository

simulate_hand ==
    /\ pc = "validated"
    /\ endpoint = "/hands/simulate"
    /\ ServiceCall(BadRequest, BadRequest)
    /\ pc' = "answered"
    /\ UNCHANGED <<hand_data, endpoint, failure>>
    /\ UNCHANGED repository

quick_hand_processing ==
    /\ pc = "validated"
    /\ endpoint = "/hands/quick"
    /\ ServiceCall(BadRequest, BadRequest)
    /\ pc' = "answered"
    /\ UNCHANGED <<hand_data, endpoint, failure>>
    /\ UNCHANGED repository

NextApi ==
    \/ ValidateRequest
    \/ create_hand
    \/ simulate_hand
    \/ quick_hand_processing

SpecApi == InitApi /\ [][NextApi]_vars

(***************************************************************************)
(* Properties of a processed hand.                                         *)
(***************************************************************************)
Returned == pc = "returned"
Players == hand_data.players
Pot == hand_data.pot_size
PlayerSet == Range(Players)
AllIds == {p.player_id : p \in PlayerSet}
WinnerSet == Range(winners)

\* HandRequest takes two players or more, each with hole cards, and a
\* positive pot
ValidHand ==
    /\ Len(Players) >= 2
    /\ \A p \in PlayerSet : p.hole_cards # NoCards
    /\ Pot > 0

\* a player who is still in: not folded, and holding hole cards
StillIn(p) == ~p.folded /\ p.hole_cards # NoCards
Contenders == {p \in PlayerSet : StillIn(p)}

\* the hand a player holds, or would hold, with the board
HandOf(p) == BestHand(p.hole_cards, hand_data.board_cards)
TopHand == SetMax({HandOf(p) : p \in Contenders})

\* the place of a player in the request
Listed(id) == CHOOSE i \in DOMAIN Players : Players[i].player_id = id
WinnersListedBefore(id) ==
    Cardinality({w \in WinnerSet : Listed(w) < Listed(id)})
WinnersWithLowerId(id) == Cardinality({w \in WinnerSet : w < id})

RECURSIVE SumOver(_, _)
SumOver(f, S) ==
    IF S = {} THEN 0
    ELSE LET x == CHOOSE y \in S : TRUE IN f[x] + SumOver(f, S \ {x})

\* C1: when at least one player is still in and the pot is not negative,
\* the winners' entries of winnings_by_player add up to exactly the pot.
C1_WinnersShareWholePot ==
    (Returned /\ Contenders # {} /\ Pot >= 0) =>
        /\ WinnerSet # {}
        /\ WinnerSet \subseteq DOMAIN winnings_by_player
        /\ SumOver(winnings_by_player, WinnerSet) = Pot

C1_Witness ==
    /\ Returned
    /\ Len(winners) >= 2
    /\ Pot > 0
    /\ Pot % Len(winners) # 0
    /\ SumOver(winnings_by_player, WinnerSet) = Pot

C3_WinnersAscending ==
    (Returned /\ ValidHand) =>
        \A i, j \in DOMAIN winners : i < j => winners[i] < winners[j]

\* C3 as amended: winners lists the winning players in the order in which
\* the request lists them, each once.
C3_WinnersInRequestOrder ==
    Returned =>
        \A i, j \in DOMAIN winners :
            i < j => /\ winners[i] \in AllIds
                     /\ winners[j] \in AllIds
                     /\ Listed(winners[i]) < Listed(winners[j])

C3_Witness ==
    /\ Returned
    /\ Len(winners) >= 2
    /\ winners[1] > winners[2]
    /\ Listed(winners[1]) < Listed(winners[2])

\* C4: winners are exactly the players still in whose hand equals the best
\* hand among the players still in; there is a winner whenever a player is
\* still in.
C4_WinnersHoldBestHand ==
    Returned =>
        /\ WinnerSet = {p.player_id : p \in {q \in Contenders : HandOf(q) = TopHand}}
        /\ (Contenders # {} => winners # <<>>)

C4_Witness ==
    /\ Returned
    /\ Cardinality(Contenders) = 3
    /\ Len(winners) = 2
    /\ \E p \in Contenders : HandOf(p) < TopHand

\* C5: a player who folded, or who holds no hole cards, is not evaluated and
\* is not a winner, even if their cards would make the best hand.
C5_FoldedNeverWins ==
    Returned =>
        \A p \in PlayerSet :
            ~StillIn(p) =>
                /\ p.player_id \notin DictKeys(evaluations)
                /\ p.player_id \notin WinnerSet
                /\ ToString(p.player_id) \notin DOMAIN best_hands

C5_Witness ==
    /\ Returned
    /\ winners # <<>>
    /\ \E p \in PlayerSet :
          /\ p.folded
          /\ p.hole_cards # NoCards
          /\ HandOf(p) > TopHand
          /\ p.player_id \notin WinnerSet

\* C6: when exactly one player is still in, that player is the only winner
\* and their entry of winnings_by_player is the whole pot.
C6_SoleSurvivorTakesPot ==
    (Returned /\ Cardinality(Contenders) = 1) =>
        \A p \in Contenders :
            /\ winners = <<p.player_id>>
            /\ p.player_id \in DOMAIN winnings_by_player
            /\ winnings_by_player[p.player_id] = Pot

C6_Witness ==
    /\ Returned
    /\ Cardinality(Contenders) = 1
    /\ Len(Players) = 3
    /\ \E p \in PlayerSet : p.folded /\ p.hole_cards # NoCards
    /\ Pot > 0
    /\ Len(winners) = 1
    /\ winnings_by_player[winners[1]] = Pot

\* C7: when no player is still in, the call does not fail and returns no
\* winners and an empty winnings map, for every pot and every list of players.
C7_AllFoldedSettlesNothing ==
    (Returned /\ Contenders = {}) =>
        /\ raised = "none"
        /\ evaluations = <<>>
        /\ winners = <<>>
        /\ winnings_by_player = EmptyDict
        /\ response.winners = <<>>
        /\ response.winnings_by_player = EmptyDict

C7_Witness ==
    /\ Returned
    /\ Contenders = {}
    /\ Len(Players) >= 2
    /\ \E p \in PlayerSet : p.folded /\ p.hole_cards # NoCards
    /\ Pot > 0
    /\ winnings_by_player = EmptyDict

\* C8 as claimed: a call with a negative pot fails with InvalidInput and
\* yields no winners and no winnings map (here for the hands in which two
\* players or more are still in).
C8_NegativePotRejected ==
    (pc # "called" /\ Pot < 0 /\ Cardinality(Contenders) >= 2) =>
        /\ raised = "InvalidInput"
        /\ winners = <<>>
        /\ winnings_by_player = EmptyDict

\* C9 as claimed: the entry of every player who is not a winner is at most
\* zero, whatever actions the player carries.
C9_LosersNeverGain ==
    Returned =>
        \A id \in DOMAIN winnings_by_player \ WinnerSet :
            winnings_by_player[id] <= 0

\* C10 as claimed: winnings_by_player has an entry for every player of the
\* hand and for no other id (here for the hands of two players or more,
\* all holding cards, with a positive pot).
C10_EntryForEveryPlayer ==
    (Returned /\ ValidHand) => DOMAIN winnings_by_player = AllIds

\* C10 as amended: whenever at least one player is still in,
\* winnings_by_player has an entry for every player of the hand (winners,
\* beaten and folded players alike) and for no other id.
C10_EntryForEveryPlayerOfContestedHand ==
    (Returned /\ Contenders # {}) => DOMAIN winnings_by_player = AllIds

C10_Witness ==
    /\ Returned
    /\ Len(Players) = 3
    /\ Len(winners) = 1
    /\ Cardinality(Contenders) = 2
    /\ \E p \in PlayerSet : p.folded
    /\ DOMAIN winnings_by_player = AllIds

\* a card of the hand appears twice across the board and the hole cards
DealtTwice == ~Injective(AllCards(Players, hand_data.board_cards))

Answered == pc = "answered"
ClientError == status_code \in 400..499
ServerError == status_code \in 500..599

\* C11 as claimed: a request in which a card appears twice across the board
\* and the hole cards is answered with an input error, and no hand of it is
\* ranked, settled or saved (here for the requests that the service does not
\* fail on for another reason).
C11_DuplicateCardsRejected ==
    (DealtTwice /\ failure = "none") =>
        /\ evaluations = <<>>
        /\ winners = <<>>
        /\ hands = <<>>
        /\ Answered => ClientError

\* C20 as claimed: on each of the three hand endpoints an invalid-input
\* failure (a refused body, or a ValueError of the service) is answered with
\* a 4xx status, and any other failure of the service with a 5xx status.
C20_FailuresMappedByKind ==
    Answered =>
        /\ (~HandRequestValid(hand_data) \/ failure = "ValueError") => ClientError
        /\ (HandRequestValid(hand_data) /\ failure = "Exception") => ServerError

(***************************************************************************)
(* The seven cards of a player, described without choosing five of them.   *)
(***************************************************************************)
Cards7(p) == Range(p.hole_cards) \cup Range(hand_data.board_cards)

\* the ranks of the straight that ends at `top`; the wheel ends at 5
Window(top) == IF top = 5 THEN {14, 2, 3, 4, 5} ELSE (top - 4)..top
StraightTops == 5..14

Suited(C, s) == {c \in C : c.suit = s}
StraightsOf(C) == {top \in StraightTops : Window(top) \subseteq RankSet(C)}
StraightFlushesOf(C) ==
    {top \in StraightTops : \E s \in Suits : Window(top) \subseteq RankSet(Suited(C, s))}
HasFlush(C) == \E s \in Suits : Cardinality(Suited(C, s)) >= 5
RanksHeld(C, n) == {r \in RankSet(C) : Count(C, r) >= n}

\* the nine categories, lowest first
CategoryOrder ==
    <<"High card", "One pair", "Two pair", "Three of a kind", "Straight",
      "Flush", "Full house", "Four of a kind", "Straight flush">>
CategoryRank(name) == CHOOSE i \in DOMAIN CategoryOrder : CategoryOrder[i] = name

\* the highest category that seven cards contain
Holding(C) ==
    CASE StraightFlushesOf(C) # {}                   -> "Straight flush"
      [] RanksHeld(C, 4) # {}                        -> "Four of a kind"
      [] \E r \in RanksHeld(C, 3) :
            RanksHeld(C, 2) \ {r} # {}               -> "Full house"
      [] HasFlush(C)                                 -> "Flush"
      [] StraightsOf(C) # {}                         -> "Straight"
      [] RanksHeld(C, 3) # {}                        -> "Three of a kind"
      [] Cardinality(RanksHeld(C, 2)) >= 2           -> "Two pair"
      [] RanksHeld(C, 2) # {}                        -> "One pair"
      [] OTHER                                       -> "High card"

HoldingOf(p) == Holding(Cards7(p))

\* what _evaluate_all_hands recorded for a player still in
Recorded(p) ==
    evaluations[CHOOSE i \in DOMAIN evaluations :
                    evaluations[i].player_id = p.player_id]
Wins(p) == p.player_id \in WinnerSet

\* C12: every player still in is given exactly one of the nine categories,
\* the highest that their seven cards contain; of two players in different
\* categories the one in the higher category (Straight flush > Four of a
\* kind > Full house > Flush > Straight > Three of a kind > Two pair > One
\* pair > High card) has the strictly higher hand, the other one does not
\* win, and heads-up the higher one wins.
C12_HigherCategoryWins ==
    Returned =>
        /\ DictKeys(evaluations) = {p.player_id : p \in Contenders}
        /\ \A p \in Contenders :
              /\ Recorded(p).desc = HoldingOf(p)
              /\ best_hands[ToString(p.player_id)] = HoldingOf(p)
              /\ Cardinality({i \in DOMAIN CategoryOrder :
                                 CategoryOrder[i] = Recorded(p).desc}) = 1
        /\ \A p, q \in Contenders :
              CategoryRank(HoldingOf(p)) > CategoryRank(HoldingOf(q)) =>
                  /\ Recorded(p).hand > Recorded(q).hand
                  /\ ~Wins(q)
                  /\ (Cardinality(Contenders) = 2 => winners = <<p.player_id>>)

\* a flush against three of a kind
C12_Witness ==
    /\ Returned
    /\ \E p, q \in Contenders :
          /\ HoldingOf(p) = "Flush"
          /\ HoldingOf(q) = "Three of a kind"
          /\ winners = <<p.player_id>>

\* the high card of the best straight among seven cards
TopStraight(p) == SetMax(StraightsOf(Cards7(p)))
HoldsStraight(p) == HoldingOf(p) = "Straight"

\* C14: a player whose best hand is the wheel A-2-3-4-5 is given a Straight,
\* has a strictly lower hand than every player with a straight to the 6 or
\* higher and a strictly higher hand than every player with Three of a kind
\* or less; the straight A-K-Q-J-10 is a Straight too and the highest one.
C14_WheelIsLowestStraight ==
    Returned =>
        \A p, q \in Contenders :
            /\ (HoldsStraight(p) /\ TopStraight(p) = 5) =>
                  /\ Recorded(p).desc = "Straight"
                  /\ (HoldsStraight(q) /\ TopStraight(q) >= 6) =>
                        /\ Recorded(p).hand < Recorded(q).hand
                        /\ ~Wins(p)
                  /\ CategoryRank(HoldingOf(q)) <= CategoryRank("Three of a kind") =>
                        /\ Recorded(p).hand > Recorded(q).hand
                        /\ ~Wins(q)
            /\ (HoldsStraight(p) /\ TopStraight(p) = 14) =>
                  /\ Recorded(p).desc = "Straight"
                  /\ (HoldsStraight(q) /\ TopStraight(q) < 14) =>
                        /\ Recorded(p).hand > Recorded(q).hand
                        /\ ~Wins(q)

\* the wheel against the straight to the 6
C14_Witness ==
    /\ Returned
    /\ \E p, q \in Contenders :
          /\ HoldsStraight(p) /\ TopStraight(p) = 5
          /\ HoldsStraight(q) /\ TopStraight(q) = 6
          /\ winners = <<q.player_id>>

\* C15: a player is given a Straight flush exactly when five of their seven
\* cards of one suit form a straight; a player who holds five cards of one
\* suit and five consecutive ranks, but no straight within one suit (and no
\* four of a kind or full house), is given a Flush.
C15_StraightFlushWithinOneSuit ==
    Returned =>
        \A p \in Contenders :
            /\ Recorded(p).desc = "Straight flush" <=> StraightFlushesOf(Cards7(p)) # {}
            /\ ( /\ HasFlush(Cards7(p))
                 /\ StraightsOf(Cards7(p)) # {}
                 /\ StraightFlushesOf(Cards7(p)) = {}
                 /\ RanksHeld(Cards7(p), 3) = {} ) => Recorded(p).desc = "Flush"

\* a flush and a straight from different cards, ranked Flush
C15_Witness ==
    /\ Returned
    /\ \E p \in Contenders :
          /\ HasFlush(Cards7(p))
          /\ StraightsOf(Cards7(p)) # {}
          /\ StraightFlushesOf(Cards7(p)) = {}
          /\ Recorded(p).desc = "Flush"
          /\ Wins(p)

\* the five cards, of the seven of a deal, that make its best hand
BestFiveTable ==
    [b \in TableBoards |-> [h \in Holes(DeckAt(b)) |->
        {S \in FiveCardHands(Range(h) \cup Range(b)) : Strength(S) = TableHands[b][h]}]]
BestFives(p) == BestFiveTable[hand_data.board_cards][p.hole_cards]

\* how often each rank is held
RankCounts(S) == [r \in 2..AceRank |-> Count(S, r)]

RankCountsTable ==
    [b \in TableBoards |-> [h \in Holes(DeckAt(b)) |->
        {RankCounts(S) : S \in BestFiveTable[b][h]}]]
RankCountsOf(p) == RankCountsTable[hand_data.board_cards][p.hole_cards]

SameRanksOtherSuits(p, q) ==
    /\ HoldingOf(p) = HoldingOf(q)
    /\ RankCountsOf(p) \cap RankCountsOf(q) # {}
    /\ \E S \in BestFives(p), T \in BestFives(q) :
          RankCounts(S) = RankCounts(T) /\ S # T

HeadsUp == Cardinality(Contenders) = 2 /\ Len(Players) = 2

\* C16: two players whose best five cards are of the same category and the
\* same ranks, in other suits, have equal hands; heads-up both are winners
\* and the pot is split between them, to the chip.
C16_SuitsNeverDecide ==
    Returned =>
        \A p, q \in Contenders :
            (p # q /\ SameRanksOtherSuits(p, q)) =>
                /\ Recorded(p).hand = Recorded(q).hand
                /\ Wins(p) <=> Wins(q)
                /\ HeadsUp =>
                      /\ WinnerSet = {p.player_id, q.player_id}
                      /\ winnings_by_player[p.player_id]
                             + winnings_by_player[q.player_id] = Pot
                      /\ winnings_by_player[p.player_id]
                             - winnings_by_player[q.player_id] \in {-1, 0, 1}

\* the same high cards in other suits, and an odd pot
C16_Witness ==
    /\ Returned
    /\ HeadsUp
    /\ Pot % 2 = 1
    /\ \E p, q \in Contenders :
          /\ p # q
          /\ SameRanksOtherSuits(p, q)
          /\ Range(p.hole_cards) \cap UNION BestFives(p) # {}
          /\ winners = <<p.player_id, q.player_id>>
          /\ winnings_by_player[p.player_id] = winnings_by_player[q.player_id] + 1

\* the rank held three times, and the best pair beside it
TripsOf(p) == SetMax(RanksHeld(Cards7(p), 3))
PairOf(p) == SetMax(RanksHeld(Cards7(p), 2) \ {TripsOf(p)})
HoldsFullHouse(p) == HoldingOf(p) = "Full house"

RECURSIVE SortedRanks(_, _)
SortedRanks(S, rs) ==
    IF rs = {} THEN <<>>
    ELSE LET r == CHOOSE x \in rs : \A y \in rs \ {x} :
                      \/ Count(S, x) > Count(S, y)
                      \/ Count(S, x) = Count(S, y) /\ x > y
         IN  <<r>> \o SortedRanks(S, rs \ {r})

SignificantRanks(S) ==
    IF \E top \in StraightTops : Window(top) = RankSet(S)
    THEN <<CHOOSE top \in StraightTops : Window(top) = RankSet(S)>>
    ELSE SortedRanks(S, RankSet(S))

\* the significant ranks of the best five cards of a deal
SignificantTable ==
    [b \in TableBoards |-> [h \in Holes(DeckAt(b)) |->
        {SignificantRanks(S) : S \in BestFiveTable[b][h]}]]
SignificantRanksOf(p) == SignificantTable[hand_data.board_cards][p.hole_cards]

\* a is decided against b at the first place where they differ
DecidedAt(a, b, i) ==
    /\ i \in DOMAIN a \cap DOMAIN b
    /\ a[i] > b[i]
    /\ \A j \in 1..(i - 1) : a[j] = b[j]
Outranks(a, b) == \E i \in DOMAIN a : DecidedAt(a, b, i)

\* C18: of two players in the same category, the one whose significant
\* ranks are higher at the first place where they differ has the higher
\* hand and the other one does not win (heads-up the higher one wins); a
\* less significant rank decides only when all the more significant ones are
\* equal, and equal ranks throughout give equal hands.
C18_RanksDecideInOrder ==
    Returned =>
        \A p, q \in Contenders :
            HoldingOf(p) = HoldingOf(q) =>
                \A a \in SignificantRanksOf(p), b \in SignificantRanksOf(q) :
                    /\ Outranks(a, b) =>
                          /\ Recorded(p).hand > Recorded(q).hand
                          /\ ~Wins(q)
                          /\ HeadsUp => winners = <<p.player_id>>
                    /\ a = b =>
                          /\ Recorded(p).hand = Recorded(q).hand
                          /\ Wins(p) <=> Wins(q)

\* two pairs alike, decided by the kicker
C18_Witness ==
    /\ Returned
    /\ \E p, q \in Contenders :
          /\ HoldingOf(p) = "Two pair"
          /\ HoldingOf(q) = "Two pair"
          /\ \E a \in SignificantRanksOf(p), b \in SignificantRanksOf(q) :
                DecidedAt(a, b, 3)
          /\ winners = <<p.player_id>>

(***************************************************************************)
(* Concurrent calls of PokerService.process_hand.  Every call has its own  *)
(* locals; the calls share the hands table, which each of them reaches     *)
(* through a connection of its own (DatabaseConnection.execute_query).     *)
(* A call stops where an exception leaves it: process_hand catches none.   *)
(***************************************************************************)
MaxCalls == 2

CallIds == 1..MaxCalls

\* the hands played: a split pot, a single winner, and the same with the
\* second player folded
CallRequests ==
    {Request(ShowdownPlayers(<<1, 2>>, <<Hole3c4d, h>>, <<FALSE, f>>), Board1, MaxPot) :
        h \in {Hole6h7s, HoleKh2s}, f \in BOOLEAN}

\* the call that raises, if any: StandardHighHand.from_game on the cards of
\* some player, or the INSERT of save_hand
CallFailures == {"none", "from_game", "save_hand"}

Call(data_dict, fails) ==
    [hand_data   |-> data_dict,
     fails       |-> fails,
     pc          |-> "called",
     evaluations |-> <<>>,
     results     |-> NothingSettled,
     saves       |-> 0,
     hand_uuid   |-> 0,
     response    |-> "none",
     raised      |-> "none"]

InitCalls ==
    /\ calls \in [CallIds -> {Call(r, f) : r \in CallRequests, f \in CallFailures}]
    /\ hands = <<>>
    /\ hand_data = "none"
    /\ pc = "none"
    /\ evaluations = <<>>
    /\ winners = <<>>
    /\ winnings_by_player = EmptyDict
    /\ best_hands = EmptyDict
    /\ response = "none"
    /\ raised = "none"
    /\ endpoint = "none"
    /\ failure = "none"
    /\ status_code = 0
    /\ connections = <<>>
    /\ columns = {}

\* a faulty variant: the INSERT replaces what the table holds
InsertRowOverwriting(table, row) == <<row>>

\* INSERT INTO hands: the row is added in one transaction
InsertRow(table, row) == Append(table, row)

\* uuid.uuid4(): an identifier that no row carries
uuid4(table) == Len(table) + 1

CallStep(c, call) ==
    /\ calls' = [calls EXCEPT ![c] = call]
    /\ UNCHANGED <<hand_data, pc, evaluations, winners, winnings_by_player,
                   best_hands, response, raised, endpoint, failure, status_code,
                   connections, columns>>

EvaluateHands(c) ==
    /\ calls[c].pc = "called"
    /\ IF calls[c].fails = "from_game"
       THEN CallStep(c, [calls[c] EXCEPT !.pc = "raised", !.raised = "Exception"])
       ELSE CallStep(c, [calls[c] EXCEPT
                !.pc = "evaluated",
                !.evaluations = evaluate_all_hands(calls[c].hand_data.players,
                                                   calls[c].hand_data.board_cards)])
    /\ UNCHANGED hands

CalculateWinnings(c) ==
    /\ calls[c].pc = "evaluated"
    /\ CallStep(c, [calls[c] EXCEPT
            !.pc = "calculated",
            !.results = calculate_winnings(calls[c].evaluations,
                                           calls[c].hand_data.pot_size,
                                           calls[c].hand_data.players)])
    /\ UNCHANGED hands

SaveHand(c) ==
    /\ calls[c].pc = "calculated"
    /\ IF calls[c].fails = "save_hand"
       THEN /\ CallStep(c, [calls[c] EXCEPT !.pc = "raised", !.raised = "Exception",
                                            !.saves = @ + 1])
            /\ UNCHANGED hands
       ELSE \E hand_uuid \in {uuid4(hands)} :
            /\ hands' = InsertRow(hands,
                            HandRow(hand_uuid, SaveData(calls[c].hand_data, calls[c].results)))
            /\ CallStep(c, [calls[c] EXCEPT !.pc = "saved", !.saves = @ + 1,
                                            !.hand_uuid = hand_uuid])

ReturnResult(c) ==
    /\ calls[c].pc = "saved"
    /\ CallStep(c, [calls[c] EXCEPT
            !.pc = "returned",
            !.response = Response(calls[c].hand_uuid, calls[c].hand_data, calls[c].results)])
    /\ UNCHANGED hands

NextCalls ==
    \E c \in CallIds :
        \/ EvaluateHands(c)
        \/ CalculateWinnings(c)
        \/ SaveHand(c)
        \/ ReturnResult(c)

SpecCalls == InitCalls /\ [][NextCalls]_vars

\* what process_hand returns for a hand when no other call runs
Alone(data_dict) ==
    calculate_winnings(evaluate_all_hands(data_dict.players, data_dict.board_cards),
                       data_dict.pot_size, data_dict.players)

HasReturned(c) == calls[c].pc = "returned"
HasRaised(c) == calls[c].pc = "raised"
RowsOf(hand_uuid) == {i \in DOMAIN hands : hands[i].uuid = hand_uuid}

\* C21: whatever the interleaving of the concurrent calls, a call that
\* returns gives the winners and the winnings it gives when it runs alone,
\* and the table holds exactly one row for it, the row of its own hand,
\* under an identifier that no other call was given.
C21_ConcurrentCallsIsolated ==
    \A c \in CallIds : HasReturned(c) =>
        /\ calls[c].response.winners = Alone(calls[c].hand_data).winners
        /\ calls[c].response.winnings_by_player
              = Alone(calls[c].hand_data).winnings_by_player
        /\ Cardinality(RowsOf(calls[c].response.hand_uuid)) = 1
        /\ \A i \in RowsOf(calls[c].response.hand_uuid) :
              hands[i] = HandRow(calls[c].response.hand_uuid,
                                 SaveData(calls[c].hand_data, Alone(calls[c].hand_data)))
        /\ \A d \in CallIds \ {c} :
              HasReturned(d) => calls[d].response.hand_uuid # calls[c].response.hand_uuid

\* two calls on different hands have both returned, the second one called
\* having saved first
C21_Witness ==
    /\ HasReturned(1) /\ HasReturned(2)
    /\ calls[1].hand_data # calls[2].hand_data
    /\ calls[1].response.winners # calls[2].response.winners
    /\ calls[2].response.hand_uuid < calls[1].response.hand_uuid

(***************************************************************************)
(* C22: what a request body must be to be accepted.                        *)
(***************************************************************************)
Accepted == pc = "validated" \/ (Answered /\ status_code # UnprocessableEntity)
Rejected == Answered /\ status_code = UnprocessableEntity

\* n distinct cards, each of a rank 2..A and of a suit h, d, c, s
DistinctCards(cards, n) ==
    /\ Len(cards) = n
    /\ \A i \in 1..Len(cards) :
          cards[i].rank \in 2..14 /\ cards[i].suit \in {"h", "d", "c", "s"}
    /\ \A i, j \in 1..Len(cards) : cards[i] = cards[j] => i = j

WellFormedBody ==
    /\ \A i \in DOMAIN Players : DistinctCards(Players[i].hole_cards, 2)
    /\ DistinctCards(hand_data.board_cards, 5)
    /\ Len(Players) >= 2 /\ Len(Players) <= 6
    /\ \A i, j \in DOMAIN Players : Players[i].player_id = Players[j].player_id => i = j

\* C22: a request is accepted only if every hole_cards is two distinct valid
\* cards, board_cards is five distinct valid cards, there are two to six
\* players and their ids are distinct; a request that is not of this form
\* is answered with a validation error, with no hand evaluated and nothing
\* stored.
C22_OnlyWellFormedAccepted ==
    /\ Accepted => WellFormedBody
    /\ (pc # "received" /\ ~WellFormedBody) => Rejected
    /\ Rejected => /\ evaluations = <<>>
                   /\ hands = <<>>
                   /\ response = "none"

\* two players with distinct ids and proper hole cards, refused for a board
\* that shows a card twice
C22_Witness ==
    /\ Rejected
    /\ hand_data.board_cards = BoardTwice
    /\ Len(Players) = 2
    /\ \A i \in DOMAIN Players : DistinctCards(Players[i].hole_cards, 2)
    /\ Players[1].player_id # Players[2].player_id

(***************************************************************************)
(* C23, C24: process_hand and the persistence of the hand.                 *)
(***************************************************************************)
SaveFailed(c) == calls[c].fails = "save_hand" /\ calls[c].saves > 0

\* C23: a call whose save_hand raised still returns: it is not ended by the
\* exception, and once it is over it has given winners and winnings.
C23_SaveFailureDoesNotAffectResult ==
    \A c \in CallIds : SaveFailed(c) =>
        /\ ~HasRaised(c)
        /\ calls[c].pc \in {"saved", "returned"}

\* the results that a call returns, as json.dumps writes them
ReturnedAsJson(c) ==
    JsonResults([winners            |-> calls[c].response.winners,
                 winnings_by_player |-> calls[c].response.winnings_by_player,
                 best_hands         |-> calls[c].response.best_hands])

\* C24: a call invokes save_hand at most once, and only once winners and
\* winnings are computed; the row it stores carries the winners, the
\* winnings, the best hands (as JSON) and the pot that the call returns; a
\* call whose evaluation raised never invokes save_hand and stores nothing.
C24_SavedOnceAfterSettlement ==
    \A c \in CallIds :
        /\ calls[c].saves <= 1
        /\ calls[c].saves = 1 =>
              /\ calls[c].pc \in {"saved", "returned", "raised"}
              /\ calls[c].results
                    = calculate_winnings(calls[c].evaluations,
                                         calls[c].hand_data.pot_size,
                                         calls[c].hand_data.players)
        /\ HasReturned(c) =>
              /\ calls[c].saves = 1
              /\ \A i \in RowsOf(calls[c].response.hand_uuid) :
                    /\ hands[i].results = ReturnedAsJson(c)
                    /\ hands[i].pot_size = calls[c].response.pot_size
        /\ (HasRaised(c) /\ calls[c].fails = "from_game") =>
              /\ calls[c].saves = 0
              /\ Len(hands) <= Cardinality({d \in CallIds \ {c} : calls[d].saves = 1})

\* one call has returned a winner and stored its hand, while the evaluation
\* of the other one raised
C24_Witness ==
    /\ HasReturned(1)
    /\ calls[1].response.winners = <<2>>
    /\ RowsOf(calls[1].response.hand_uuid) = {1}
    /\ HasRaised(2)
    /\ calls[2].fails = "from_game"
    /\ Len(hands) = 1

(***************************************************************************)
(* The lines of the hand history: HandRepository._format_winnings and      *)
(* HandRepository._format_action_sequence.  A line is the string that the  *)
(* method returns.                                                         *)
(***************************************************************************)
RECURSIVE Join(_, _)
\* sep.join(strings)
Join(strings, sep) ==
    IF strings = <<>> THEN ""
    ELSE IF Len(strings) = 1 THEN strings[1]
    ELSE strings[1] \o sep \o Join(Tail(strings), sep)

\* the player ids of the stored hands
LoggedIds == {1, 2, 10}

\* int(key): the keys of a stored winnings_by_player are the player ids as
\* json.dumps wrote them
IntOf(key) == CHOOSE i \in LoggedIds : ToString(i) = key

\* sorted(items, key=lambda x: int(x[0])): insertion into the sorted prefix,
\* stable
RECURSIVE SortedByIntKey(_)
SortedByIntKey(items) ==
    IF items = <<>> THEN <<>>
    ELSE LET rest == SortedByIntKey(SubSeq(items, 1, Len(items) - 1))
             last == items[Len(items)]
             before == SelectSeq(rest, LAMBDA x : IntOf(x[1]) <= IntOf(last[1]))
             after == SelectSeq(rest, LAMBDA x : IntOf(x[1]) > IntOf(last[1]))
         IN before \o <<last>> \o after

\* a faulty variant: the items are listed as the dict holds them
SortedPlayersUnsorted(winnings_items) == winnings_items

SortedPlayers(winnings_items) == SortedByIntKey(winnings_items)

\* a faulty variant: a plus sign on every amount that is not negative
WinningsEntryPlusOnZero(item) ==
    IF item[2] >= 0
    THEN "Player " \o item[1] \o ": +" \o ToString(item[2])
    ELSE "Player " \o item[1] \o ": " \o ToString(item[2])

WinningsEntry(item) ==
    IF item[2] > 0
    THEN "Player " \o item[1] \o ": +" \o ToString(item[2])
    ELSE "Player " \o item[1] \o ": " \o ToString(item[2])

\* winnings_items: winnings_by_player.items(), pairs of a key and an amount
format_winnings(winnings_items) ==
    LET sorted_players == SortedPlayers(winnings_items)
        winnings == [i \in DOMAIN sorted_players |-> WinningsEntry(sorted_players[i])]
    IN IF winnings # <<>>
       THEN "Winnings: " \o Join(winnings, ", ")
       ELSE "Winnings: Not available"

Streets == <<"preflop", "flop", "turn", "river">>

\* action.get('street', 'preflop')
StreetOf(action) ==
    IF "street" \in DOMAIN action THEN action.street ELSE "preflop"

\* a faulty variant: a call never shows its amount
ShortWithoutCallAmount(action) ==
    CASE action.action = "fold" -> "f"
      [] action.action = "check" -> "x"
      [] action.action = "call" -> "c"
      [] action.action = "bet" -> "b" \o ToString(action.amount)
      [] action.action = "raise" -> "r" \o ToString(action.amount)
      [] action.action = "all_in" ->
            IF action.amount > 0 THEN "allin" \o ToString(action.amount) ELSE "allin"
      [] OTHER -> SubSeq(action.action, 1, 1)

\* the short form of an action, with its amount
Short(action) ==
    CASE action.action = "fold" -> "f"
      [] action.action = "check" -> "x"
      [] action.action = "call" ->
            IF action.amount > 0 THEN "c" \o ToString(action.amount) ELSE "c"
      [] action.action = "bet" -> "b" \o ToString(action.amount)
      [] action.action = "raise" -> "r" \o ToString(action.amount)
      [] action.action = "all_in" ->
            IF action.amount > 0 THEN "allin" \o ToString(action.amount) ELSE "allin"
      [] OTHER -> SubSeq(action.action, 1, 1)

\* a faulty variant: a street keeps the actions of the first player only
StreetGroupOfFirstPlayer(players_data, street) ==
    IF players_data = <<>> THEN <<>>
    ELSE LET kept == SelectSeq(players_data[1].actions, LAMBDA a : StreetOf(a) = street)
         IN [i \in DOMAIN kept |-> Short(kept[i])]

\* action_groups[street]: player after player, the actions of each player in
\* their order
StreetGroup(players_data, street) ==
    LET kept == SelectSeq(Flatten([i \in DOMAIN players_data |-> players_data[i].actions]),
                          LAMBDA a : StreetOf(a) = street)
    IN [i \in DOMAIN kept |-> Short(kept[i])]

RankChars == <<"2", "3", "4", "5", "6", "7", "8", "9", "T", "J", "Q", "K", "A">>
CardStr(card) == RankChars[card.rank - 1] \o card.suit

\* board_cards[a:b], a string of card tokens
BoardStr(cards) == Join([i \in DOMAIN cards |-> CardStr(cards[i])], "")

ActionTokens(players_data, board_cards) ==
    StreetGroup(players_data, "preflop")
    \o (IF Len(board_cards) >= 3
        THEN <<BoardStr(SubSeq(board_cards, 1, 3))>> \o StreetGroup(players_data, "flop")
             \o (IF Len(board_cards) >= 4
                 THEN <<BoardStr(SubSeq(board_cards, 4, 4))>>
                      \o StreetGroup(players_data, "turn")
                      \o (IF Len(board_cards) >= 5
                          THEN <<BoardStr(SubSeq(board_cards, 5, 5))>>
                               \o StreetGroup(players_data, "river")
                          ELSE <<>>)
                 ELSE <<>>)
        ELSE <<>>)

format_action_sequence(players_data, board_cards) ==
    LET action_string == Join(ActionTokens(players_data, board_cards), " ")
    IN IF action_string # "" THEN "Actions: " \o action_string ELSE "Actions: none"

\* winnings_by_player of a stored hand: up to three players, in any order
WinningsItems ==
    UNION {{items \in [1..n -> {ToString(i) : i \in LoggedIds} \X Amounts] :
                \A i, j \in 1..n : items[i][1] = items[j][1] => i = j} :
           n \in 0..Cardinality(LoggedIds)}

\* the actions of a request body (ActionType, amount, Street)
LoggedMoves ==
    {<<"fold", 0>>, <<"check", 0>>, <<"call", 0>>, <<"call", 1>>, <<"raise", 1>>,
     <<"all_in", 0>>, <<"all_in", 1>>}
LoggedActions ==
    {[action |-> m[1], amount |-> m[2], street |-> Streets[i]] :
        m \in LoggedMoves, i \in DOMAIN Streets}
FirstLogs == UNION {[1..n -> LoggedActions] : n \in 0..MaxActions}
SecondLogs ==
    {<<>>,
     <<[action |-> "raise", amount |-> 1, street |-> "preflop"]>>,
     <<[action |-> "check", amount |-> 0, street |-> "flop"]>>,
     <<[action |-> "fold", amount |-> 0, street |-> "river"]>>}

LoggedPlayers(log1, log2) ==
    <<Player(1, 0, HoleKh2s, FALSE, log1), Player(2, 1, Hole6h7s, FALSE, log2)>>

InitLog ==
    /\ \/ \E items \in WinningsItems :
            hand_data = [line |-> "winnings", winnings_by_player |-> items]
       \/ \E log1 \in FirstLogs, log2 \in SecondLogs, board \in Boards :
            hand_data = [line |-> "action_sequence",
                         players_data |-> LoggedPlayers(log1, log2),
                         board_cards |-> board]
    /\ pc = "called"
    /\ response = "none"
    /\ evaluations = <<>>
    /\ winners = <<>>
    /\ winnings_by_player = EmptyDict
    /\ best_hands = EmptyDict
    /\ hands = <<>>
    /\ raised = "none"
    /\ endpoint = "none"
    /\ failure = "none"
    /\ status_code = 0
    /\ calls = <<>>
    /\ connections = <<>>
    /\ columns = {}

Formatted(line) ==
    /\ pc' = "formatted"
    /\ response' = line
    /\ UNCHANGED <<hand_data, evaluations, winners, winnings_by_player, best_hands,
                   hands, raised, endpoint, failure, status_code>>
    /\ UNCHANGED repository

FormatWinnings ==
    /\ pc = "called"
    /\ hand_data.line = "winnings"
    /\ Formatted(format_winnings(hand_data.winnings_by_player))

FormatActionSequence ==
    /\ pc = "called"
    /\ hand_data.line = "action_sequence"
    /\ Formatted(format_action_sequence(hand_data.players_data, hand_data.board_cards))

NextLog == FormatWinnings \/ FormatActionSequence

SpecLog == InitLog /\ [][NextLog]_vars

(***************************************************************************)
(* C29: the winnings line.                                                 *)
(***************************************************************************)
WinningsLine == pc = "formatted" /\ hand_data.line = "winnings"
Items == hand_data.winnings_by_player
ItemIds == {i \in LoggedIds : \E n \in DOMAIN Items : Items[n][1] = ToString(i)}
AmountOf(id) == Items[CHOOSE n \in DOMAIN Items : Items[n][1] = ToString(id)][2]

\* the entry of a player: a plus sign before a strictly positive amount only
EntryOf(id) ==
    "Player " \o ToString(id) \o ": "
        \o (IF AmountOf(id) > 0 THEN "+" ELSE "") \o ToString(AmountOf(id))

RECURSIVE EntriesAscending(_)
EntriesAscending(ids) ==
    IF ids = {} THEN <<>>
    ELSE <<EntryOf(SetMin(ids))>> \o EntriesAscending(ids \ {SetMin(ids)})

\* C29: the winnings line lists every player of winnings_by_player once, by
\* ascending numeric id, with a plus sign on the strictly positive amounts and
\* none on zero and negative ones; for an empty map it reads "Winnings: Not
\* available".
C29_WinningsLine ==
    WinningsLine =>
        IF Items = <<>>
        THEN response = "Winnings: Not available"
        ELSE response = "Winnings: " \o Join(EntriesAscending(ItemIds), ", ")

\* player 10 is stored before player 2, one of them won, the other one
\* neither won nor lost
C29_Witness ==
    /\ WinningsLine
    /\ Items = <<<<"10", 1>>, <<"2", 0>>, <<"1", -1>>>>
    /\ response = "Winnings: Player 1: -1, Player 2: 0, Player 10: +1"

(***************************************************************************)
(* C30: the action line.                                                   *)
(***************************************************************************)
ActionLine == pc = "formatted" /\ hand_data.line = "action_sequence"
Recorded30 == Flatten([i \in DOMAIN hand_data.players_data |-> hand_data.players_data[i].actions])

\* the short forms of the actions recorded on a street, as they are recorded
ShortsOn(street) ==
    LET on == SelectSeq(Recorded30, LAMBDA a : a.street = street)
    IN [i \in DOMAIN on |-> Short(on[i])]

ExpectedTokens ==
    ShortsOn("preflop")
    \o <<BoardStr(SubSeq(hand_data.board_cards, 1, 3))>> \o ShortsOn("flop")
    \o <<BoardStr(SubSeq(hand_data.board_cards, 4, 4))>> \o ShortsOn("turn")
    \o <<BoardStr(SubSeq(hand_data.board_cards, 5, 5))>> \o ShortsOn("river")

\* C30: the action line holds every recorded action of every player once,
\* as the preflop actions, the flop cards, the flop actions, the turn card,
\* the turn actions, the river card and the river actions; none is dropped.
C30_ActionLine ==
    ActionLine =>
        /\ response = "Actions: " \o Join(ExpectedTokens, " ")
        /\ Len(ExpectedTokens) = Len(Recorded30) + 3

\* the first player raised on the river and is recorded before that as
\* calling before the flop; the second player checked the flop
C30_Witness ==
    /\ ActionLine
    /\ hand_data.board_cards = Board1
    /\ hand_data.players_data[1].actions
          = <<[action |-> "raise", amount |-> 1, street |-> "river"],
              [action |-> "call", amount |-> 0, street |-> "preflop"]>>
    /\ hand_data.players_data[2].actions
          = <<[action |-> "check", amount |-> 0, street |-> "flop"]>>
    /\ response = "Actions: c 8h9cTd x Js Qh r1"

(***************************************************************************)
(* DatabaseConnection: get_connection and execute_query.  A query runs in  *)
(* a connection of its own; what it does to the table lasts only if the    *)
(* connection is committed.                                                *)
(***************************************************************************)
\* CREATE TABLE IF NOT EXISTS hands (...)
InitDbColumns ==
    {"id", "hand_uuid", "players_data", "board_cards", "pot_size",
     "small_blind", "big_blind", "results", "created_at"}

\* the columns that the INSERT and the SELECTs of HandRepository name
QueryColumns ==
    {"uuid", "players_data", "board_cards", "pot_size", "small_blind",
     "big_blind", "results"}

\* a hands table made for these queries, on which init_db has not run (the
\* startup event does not fire under the TestClient of test_api.py)
RepositoryColumns == QueryColumns \cup {"id"}

\* what may go wrong with a query: psycopg2.connect, cursor.execute or
\* conn.commit raising
DbFailures == {"none", "connect", "execute", "commit"}

\* cursor.execute raises for a column that the table does not have
ExecuteRaises(named, fails) == fails = "execute" \/ ~(named \subseteq columns)

\* a faulty variant: no rollback when the body raises
get_connection_without_rollback(body_raises, commit_raises) ==
    [trace       |-> (IF body_raises THEN <<>> ELSE <<"commit">>) \o <<"close">>,
     body_raised |-> body_raises,
     committed   |-> ~body_raises /\ ~commit_raises,
     reraised    |-> body_raises \/ commit_raises]

\* the life of a connection that psycopg2.connect has opened, as the calls
\* made on it: commit after the body; rollback and re-raise on an exception
\* of the body or of the commit; close in every case
get_connection(body_raises, commit_raises) ==
    [trace       |-> (IF body_raises THEN <<>> ELSE <<"commit">>)
                        \o (IF body_raises \/ commit_raises THEN <<"rollback">> ELSE <<>>)
                        \o <<"close">>,
     body_raised |-> body_raises,
     committed   |-> ~body_raises /\ ~commit_raises,
     reraised    |-> body_raises \/ commit_raises]

\* execute_query: the connections after the query, and whether it raised
ConnectionsAfter(named, fails) ==
    IF fails = "connect" THEN connections
    ELSE Append(connections, get_connection(ExecuteRaises(named, fails), fails = "commit"))

QueryRaises(named, fails) ==
    fails \in {"connect", "commit"} \/ ExecuteRaises(named, fails)

(***************************************************************************)
(* HandRepository on the hands table.  A row holds players_data and        *)
(* results as the JSON that json.dumps wrote; `corrupt` says that one of   *)
(* the two texts is no JSON (json.loads raises JSONDecodeError).           *)
(***************************************************************************)
HandLimit == 20
DefaultLimit == 50
DefaultStack == 1000

StoredRow(id, row, corrupt) ==
    [id           |-> id,
     uuid         |-> row.uuid,
     players_data |-> row.players_data,
     board_cards  |-> row.board_cards,
     pot_size     |-> row.pot_size,
     small_blind  |-> row.small_blind,
     big_blind    |-> row.big_blind,
     results      |-> row.results,
     corrupt      |-> corrupt]

\* d.get(key, default)
Get(d, key, default) == IF key \in DOMAIN d THEN d[key] ELSE default

\* player.get('player_id', player.get('id', 0))
IdOf(player) == Get(player, "player_id", Get(player, "id", 0))

\* the last player of the list at a position, 0 (None) if there is none
RECURSIVE LastAt(_, _)
LastAt(players_data, position) ==
    IF players_data = <<>> THEN 0
    ELSE LET last == players_data[Len(players_data)]
         IN IF Get(last, "position", -1) = position THEN IdOf(last)
            ELSE LastAt(SubSeq(players_data, 1, Len(players_data) - 1), position)

\* the players whose totalBet is a blind: <<sb_player, bb_player>>
RECURSIVE BlindsByBet(_, _, _, _)
BlindsByBet(players_data, sb, bb, found) ==
    IF players_data = <<>> THEN found
    ELSE LET player == Head(players_data)
             total_bet == Get(player, "totalBet", 0)
         IN BlindsByBet(Tail(players_data), sb, bb,
                IF total_bet = sb /\ found[1] = 0 THEN <<IdOf(player), found[2]>>
                ELSE IF total_bet = bb /\ found[2] = 0 THEN <<found[1], IdOf(player)>>
                ELSE found)

ActivePlayers(players_data) ==
    LET active == SelectSeq(players_data, LAMBDA q : ~Get(q, "folded", FALSE))
    IN [i \in DOMAIN active |-> IdOf(active[i])]

format_stack_info(players_data, sb, bb) ==
    LET initial_stack ==
            IF players_data # <<>>
            THEN Get(players_data[1], "stack_size", DefaultStack)
                    + Get(players_data[1], "totalBet", 0)
            ELSE DefaultStack
        by_position == <<LastAt(players_data, 1), LastAt(players_data, 2)>>
        blinds == IF by_position[1] = 0 \/ by_position[2] = 0
                  THEN BlindsByBet(players_data, sb, bb, by_position)
                  ELSE by_position
        active_players == ActivePlayers(players_data)
        dealer_at == LastAt(players_data, 0)
        dealer_player == IF dealer_at = 0 /\ Len(active_players) > 0
                         THEN active_players[1] ELSE dealer_at
        sb_player == IF blinds[1] = 0 /\ Len(active_players) > 1
                     THEN active_players[2] ELSE blinds[1]
        bb_player == IF blinds[2] = 0 /\ Len(active_players) > 2 THEN active_players[3]
                     ELSE IF blinds[2] = 0 /\ Len(active_players) > 1 THEN active_players[2]
                     ELSE blinds[2]
        dealer_str == IF dealer_player # 0 THEN "Player " \o ToString(dealer_player)
                                           ELSE "Player 1"
        sb_str == IF sb_player # 0 THEN "Player " \o ToString(sb_player) ELSE "Player 2"
        bb_str == IF bb_player # 0 THEN "Player " \o ToString(bb_player) ELSE "Player 3"
    IN "Stack " \o ToString(initial_stack) \o ": Dealer: " \o dealer_str \o ", "
           \o sb_str \o " Small blind: " \o bb_str

format_hole_cards(players_data) ==
    LET holding == SelectSeq(players_data, LAMBDA q : Len(Get(q, "hole_cards", <<>>)) >= 2)
        cards == [i \in DOMAIN holding |->
                    "Player " \o ToString(holding[i].player_id) \o ": "
                        \o CardStr(holding[i].hole_cards[1]) \o " "
                        \o CardStr(holding[i].hole_cards[2])]
    IN IF cards # <<>> THEN "Players: " \o Join(cards, ", ")
       ELSE "Players: No hole cards available"

\* d.items(), for a dict whose keys are the decimal strings of player ids
RECURSIVE ItemsOf(_)
ItemsOf(d) ==
    IF DOMAIN d = {} THEN <<>>
    ELSE LET k == CHOOSE key \in DOMAIN d :
                     \A other \in DOMAIN d : IntOf(key) <= IntOf(other)
         IN <<<<k, d[k]>>>> \o ItemsOf([key \in DOMAIN d \ {k} |-> d[key]])

formatted_hand(row) ==
    [uuid            |-> row.uuid,
     stack_info      |-> format_stack_info(row.players_data, row.small_blind, row.big_blind),
     hole_cards      |-> format_hole_cards(row.players_data),
     action_sequence |-> format_action_sequence(row.players_data, row.board_cards),
     winnings        |-> format_winnings(ItemsOf(Get(row.results, "winnings_by_player",
                                                     EmptyDict)))]

\* a faulty variant: the rows in the order of their insertion
NewestFirstOldestFirst(table) == SubSeq(table, 1, SetMin({Len(table), HandLimit}))

\* SELECT ... FROM hands ORDER BY id DESC LIMIT 20
NewestFirst(table) == SubSeq(Reverse(table), 1, SetMin({Len(table), HandLimit}))

\* a faulty variant: a row that cannot be parsed ends the loop
ParsedRowsUntilBad(rows) ==
    LET bad == {i \in DOMAIN rows : rows[i].corrupt}
    IN IF bad = {} THEN rows ELSE SubSeq(rows, 1, SetMin(bad) - 1)

\* the rows that the loop of get_all_hands keeps: json.loads raises on a
\* corrupt row, which is skipped (except ... continue)
ParsedRows(rows) == SelectSeq(rows, LAMBDA row : ~row.corrupt)

get_all_hands(table) ==
    LET rows == ParsedRows(NewestFirst(table))
    IN [i \in DOMAIN rows |-> formatted_hand(rows[i])]

\* all_hands[offset:offset + limit]
Slice(list, start, end) == SubSeq(list, start + 1, SetMin({end, Len(list)}))

(***************************************************************************)
(* One query of the repository on a table that holds hands already, and    *)
(* the look-up of a hand that was just saved.                              *)
(***************************************************************************)
MaxStored == 22
MaxOffset == 2

\* the hand of the rows that the table holds at the start
StoredRequest ==
    Request(ShowdownPlayers(<<1, 2>>, <<Hole3c4d, HoleKh2s>>, <<FALSE, FALSE>>),
            Board1, MaxPot)
StoredHand == SaveData(StoredRequest, Alone(StoredRequest))

\* n rows, saved one after the other; the text of row `bad` is no JSON
TableOf(n, bad) ==
    [i \in 1..n |-> StoredRow(i, HandRow(i, StoredHand), i = bad)]

Offsets == 0..MaxOffset
Limits == {1, 2, DefaultLimit}

Queries(n) ==
    {[op |-> "save_hand", save_data |-> SaveData(r, Alone(r))] : r \in CallRequests}
    \cup {[op |-> "get_hand_by_id", hand_uuid |-> u] : u \in {1, n + 1}}
    \cup {[op |-> "get_all_hands"]}
    \cup {[op |-> "get_hands", offset |-> o, limit |-> l] : o \in Offsets, l \in Limits}

InitRepo ==
    /\ \E n \in 0..MaxStored :
       \E bad \in {0, 1, n - 1, n} \cap 0..n :
          /\ hands = TableOf(n, bad)
          /\ hand_data \in Queries(n)
    /\ columns \in {InitDbColumns, RepositoryColumns}
    /\ failure \in DbFailures
    /\ connections = <<>>
    /\ pc = "called"
    /\ response = "none"
    /\ raised = "none"
    /\ status_code = 0
    /\ evaluations = <<>>
    /\ winners = <<>>
    /\ winnings_by_player = EmptyDict
    /\ best_hands = EmptyDict
    /\ endpoint = "none"
    /\ calls = <<>>

QueryDone(named) ==
    /\ connections' = ConnectionsAfter(named, failure)
    /\ UNCHANGED <<hand_data, evaluations, winners, winnings_by_player, best_hands,
                   endpoint, failure, calls, columns>>

Raise(exception) ==
    /\ pc' = "raised"
    /\ raised' = exception
    /\ UNCHANGED response

Return(value) ==
    /\ pc' = "returned"
    /\ response' = value
    /\ UNCHANGED raised

save_hand ==
    /\ pc = "called"
    /\ hand_data.op = "save_hand"
    /\ QueryDone(QueryColumns)
    /\ \E hand_uuid \in {uuid4(hands)} :
          IF QueryRaises(QueryColumns, failure)
          THEN Raise("Exception") /\ UNCHANGED hands
          ELSE /\ hands' = InsertRow(hands,
                              StoredRow(Len(hands) + 1,
                                        HandRow(hand_uuid, hand_data.save_data), FALSE))
               /\ Return(hand_uuid)
    /\ UNCHANGED status_code

\* the caller looks up the hand that save_hand has just returned
LookUpSaved ==
    /\ pc = "returned"
    /\ hand_data.op = "save_hand"
    /\ hand_data' = [op |-> "get_hand_by_id", hand_uuid |-> response,
                     saved |-> hand_data.save_data]
    /\ pc' = "called"
    /\ UNCHANGED <<evaluations, winners, winnings_by_player, best_hands, hands,
                   response, raised, endpoint, failure, status_code>>
    /\ UNCHANGED repository

\* the value is <<>> for None and <<hand>> for a hand
get_hand_by_id ==
    /\ pc = "called"
    /\ hand_data.op = "get_hand_by_id"
    /\ QueryDone(QueryColumns)
    /\ LET rows == SelectSeq(hands, LAMBDA row : row.uuid = hand_data.hand_uuid)
       IN IF QueryRaises(QueryColumns, failure) THEN Raise("Exception")
          ELSE IF rows = <<>> THEN Return(<<>>)
          ELSE IF rows[1].corrupt THEN Raise("JSONDecodeError")
          ELSE Return(<<[uuid         |-> rows[1].uuid,
                         players_data |-> rows[1].players_data,
                         board_cards  |-> rows[1].board_cards,
                         pot_size     |-> rows[1].pot_size,
                         results      |-> rows[1].results]>>)
    /\ UNCHANGED <<hands, status_code>>

get_all_hands_called ==
    /\ pc = "called"
    /\ hand_data.op = "get_all_hands"
    /\ QueryDone(QueryColumns \cup {"id"})
    /\ IF QueryRaises(QueryColumns \cup {"id"}, failure) THEN Raise("Exception")
       ELSE Return(get_all_hands(hands))
    /\ UNCHANGED <<hands, status_code>>

\* GET /hands: the page of get_all_hands(), 500 on any exception
get_hands ==
    /\ pc = "called"
    /\ hand_data.op = "get_hands"
    /\ QueryDone(QueryColumns \cup {"id"})
    /\ IF QueryRaises(QueryColumns \cup {"id"}, failure)
       THEN Raise("Exception") /\ status_code' = InternalServerError
       ELSE /\ Return(Slice(get_all_hands(hands), hand_data.offset,
                            hand_data.offset + hand_data.limit))
            /\ status_code' = Ok
    /\ UNCHANGED hands

NextRepo ==
    \/ save_hand
    \/ LookUpSaved
    \/ get_hand_by_id
    \/ get_all_hands_called
    \/ get_hands

SpecRepo == InitRepo /\ [][NextRepo]_vars

(***************************************************************************)
(* C25: the end of a connection.                                           *)
(***************************************************************************)
Called(conn, method) == \E i \in DOMAIN conn.trace : conn.trace[i] = method
TimesCalled(conn, method) ==
    Cardinality({i \in DOMAIN conn.trace : conn.trace[i] = method})
QueryOver == pc \in {"returned", "raised"}

\* C25: every connection that get_connection opened is closed when the
\* query is over, by one close that is the last call made on it, and has
\* ended in exactly one of two ways: committed, the body having completed
\* without exception, or rolled back, with the exception re-raised to the
\* caller; a body that raised always ends in a rollback, and no connection
\* is both committed and rolled back.
C25_CommitOrRollbackThenClose ==
    \A i \in DOMAIN connections :
        LET conn == connections[i] IN
        /\ conn.trace[Len(conn.trace)] = "close"
        /\ TimesCalled(conn, "close") = 1
        /\ conn.committed # Called(conn, "rollback")
        /\ conn.committed => (~conn.body_raised /\ Called(conn, "commit"))
        /\ Called(conn, "rollback") => conn.reraised
        /\ conn.body_raised => (Called(conn, "rollback") /\ ~Called(conn, "commit"))
        /\ (i = Len(connections) /\ QueryOver /\ conn.reraised) => pc = "raised"

\* the INSERT of save_hand was refused and its connection rolled back and
\* closed, the table being as it was
C25_Witness ==
    /\ pc = "raised"
    /\ hand_data.op = "save_hand"
    /\ failure = "execute"
    /\ Len(connections) = 1
    /\ connections[1].trace = <<"rollback", "close">>
    /\ Len(hands) = 1

(***************************************************************************)
(* C26: save_hand, then get_hand_by_id.                                    *)
(***************************************************************************)
LookedUp == hand_data.op = "get_hand_by_id" /\ QueryOver
KnownUuid == \E i \in DOMAIN hands : hands[i].uuid = hand_data.hand_uuid

\* C26: the hand that get_hand_by_id returns for the identifier that
\* save_hand returned has the players_data, board_cards, pot_size and
\* results (winners, winnings by player id, best hands) of the saved hand;
\* for an identifier that save_hand never returned, get_hand_by_id returns
\* None.
C26_SavedHandReadBack ==
    /\ (LookedUp /\ "saved" \in DOMAIN hand_data /\ failure = "none") =>
          /\ pc = "returned"
          /\ Len(response) = 1
          /\ response[1].players_data = hand_data.saved.players_data
          /\ response[1].board_cards = hand_data.saved.board_cards
          /\ response[1].pot_size = hand_data.saved.pot_size
          /\ response[1].results = JsonResults(hand_data.saved.results)
    /\ (LookedUp /\ ~KnownUuid /\ failure = "none") =>
          /\ pc = "returned"
          /\ response = <<>>

(***************************************************************************)
(* C27, C28: the hand history.                                             *)
(***************************************************************************)
Uuids(list) == [i \in DOMAIN list |-> list[i].uuid]
NoCorruptRow == \A i \in DOMAIN hands : ~hands[i].corrupt

\* the identifiers of all the stored hands, the last one saved first
AllNewestFirst == [i \in 1..Len(hands) |-> hands[Len(hands) + 1 - i].uuid]

\* positions from + 1 .. from + count of a list, as far as it goes
Page(list, from, count) ==
    [i \in 1..SetMax({0, SetMin({count, Len(list) - from})}) |-> list[from + i]]

\* C27: GET /hands with offset o and limit l answers with the hands at the
\* positions o+1 .. o+l of the newest-first list of all the stored hands,
\* however many hands are stored.
C27_PageOfAllHands ==
    (hand_data.op = "get_hands" /\ QueryOver /\ status_code = Ok /\ NoCorruptRow) =>
        Uuids(response) = Page(AllNewestFirst, hand_data.offset, hand_data.limit)

\* the rows that can be parsed among the HandLimit newest ones
Readable == {i \in DOMAIN hands : i > Len(hands) - 20 /\ ~hands[i].corrupt}

IsNewestFirst(uuids) ==
    \A i, j \in DOMAIN uuids : i < j =>
        \E m, n \in DOMAIN hands :
            /\ hands[m].uuid = uuids[i] /\ hands[n].uuid = uuids[j]
            /\ m > n

\* C28: get_all_hands returns the most recently saved hands, newest first
\* and at most 20 of them; a row whose JSON cannot be parsed is left out and
\* the other rows are returned: such a row never makes the call fail.
C28_NewestTwentyWithoutBadRows ==
    /\ (hand_data.op = "get_all_hands" /\ pc = "returned") =>
          /\ Len(response) <= 20
          /\ {response[i].uuid : i \in DOMAIN response} = {hands[i].uuid : i \in Readable}
          /\ Len(response) = Cardinality(Readable)
          /\ IsNewestFirst(Uuids(response))
    /\ (hand_data.op = "get_all_hands" /\ QueryOver /\ failure = "none"
            /\ columns = RepositoryColumns) => pc = "returned"

\* twenty-two hands are stored, the text of the last but one is no JSON:
\* nineteen hands are returned
C28_Witness ==
    /\ hand_data.op = "get_all_hands"
    /\ pc = "returned"
    /\ Len(hands) = 22
    /\ hands[21].corrupt
    /\ Len(response) = 19
    /\ response[1].uuid = 22
    /\ response[2].uuid = 20
    /\ response[19].uuid = 3

====
